---- MODULE Spec2Model ----
(***************************************************************************)
(* Model of portfolio_tracker.py: one run of main() (load the holdings,    *)
(* fetch a quote per distinct ticker, derive the per-holding metrics,      *)
(* write the report, render the chart), and calculate_performance applied  *)
(* repeatedly to the same table.                                           *)
(*                                                                         *)
(* A DataFrame is a function from column names to columns; a column is a   *)
(* sequence.  Quantities and prices are integers.  The results of a float  *)
(* division are kept as values [k, n, d]: a reduced fraction n/d, or one   *)
(* of the IEEE specials inf, -inf, nan that pandas/numpy produce when the  *)
(* divisor is zero.                                                        *)
(***************************************************************************)
EXTENDS Integers, Sequences, FiniteSets, TLC

\* ---------------------------------------------------------------- bounds
MaxLots == 2
MaxQuantity == 1
MaxPrice == 1
MaxRuns == 2

Tickers == {"AAPL", "GOOG"}

\* ------------------------------------------------------- configuration
PORTFOLIO_CSV_PATH == "portfolio.csv"
REPORT_CSV_PATH == "portfolio_performance_report.csv"
CHART_PNG_PATH == "portfolio_distribution.png"

required_columns == {"Ticker", "Quantity", "PurchasePrice"}

\* ------------------------------------------------------ float division
Abs(x) == IF x < 0 THEN -x ELSE x

RECURSIVE GCD(_, _)
GCD(a, b) == IF b = 0 THEN a ELSE GCD(b, a % b)

Fin(n, d) == LET g == GCD(Abs(n), d)
             IN  [k |-> "fin", n |-> n \div g, d |-> d \div g]
Zero == [k |-> "fin", n |-> 0, d |-> 1]
PosInf == [k |-> "inf", n |-> 0, d |-> 1]
NegInf == [k |-> "-inf", n |-> 0, d |-> 1]
NaN == [k |-> "nan", n |-> 0, d |-> 1]

\* a / b on numeric columns: x/0 is +-inf, 0/0 is nan, nothing is raised
Div(a, b) ==
    IF b > 0 THEN Fin(a, b)
    ELSE IF b < 0 THEN Fin(-a, -b)
    ELSE IF a > 0 THEN PosInf
    ELSE IF a < 0 THEN NegInf
    ELSE NaN

Times(x, c) == IF x.k = "fin" THEN Fin(x.n * c, x.d) ELSE x

\* Series.fillna(v): only NaN is replaced
fillna(col, v) == [i \in DOMAIN col |-> IF col[i].k = "nan" THEN v ELSE col[i]]

\* ------------------------------------------------------------ DataFrame
Rows(df) == IF DOMAIN df = {} THEN 0 ELSE Len(df[CHOOSE c \in DOMAIN df : TRUE])

\* df[c] = col  (adds the column, or replaces the one of that name)
SetCol(df, c, col) == (c :> col) @@ df

\* Series.sum()
RECURSIVE Sum(_)
Sum(col) == IF Len(col) = 0 THEN 0 ELSE col[1] + Sum(Tail(col))

\* Series.unique().tolist(): the distinct values in order of first appearance
RECURSIVE Unique(_)
Unique(col) ==
    IF Len(col) = 0 THEN << >>
    ELSE LET init == Unique(SubSeq(col, 1, Len(col) - 1))
             last == col[Len(col)]
         IN  IF \E i \in DOMAIN init : init[i] = last THEN init
             ELSE Append(init, last)

\* Series.map(dict)
MapCol(col, d) == [i \in DOMAIN col |-> d[col[i]]]

FrameOf(rows) ==
    [Ticker |-> [i \in DOMAIN rows |-> rows[i].Ticker],
     Quantity |-> [i \in DOMAIN rows |-> rows[i].Quantity],
     PurchasePrice |-> [i \in DOMAIN rows |-> rows[i].PurchasePrice]]

Restrict(df, cols) == [c \in cols |-> df[c]]

\* the value of an unbound / None table: no columns at all
None == [c \in {} |-> << >>]

\* ---------------------------------------------------------------- inputs
Lot == [Ticker : Tickers, Quantity : 0..MaxQuantity, PurchasePrice : 0..MaxPrice]

Holdings == UNION {[1..n -> Lot] : n \in 0..MaxLots}

ExampleHoldings ==
    << [Ticker |-> "AAPL", Quantity |-> 10, PurchasePrice |-> 150],
       [Ticker |-> "AAPL", Quantity |-> 5, PurchasePrice |-> 160],
       [Ticker |-> "GOOG", Quantity |-> 2, PurchasePrice |-> 2800] >>

Price(p) == [kind |-> "price", price |-> p]
Empty == [kind |-> "empty", price |-> 0]
Raises == [kind |-> "raise", price |-> 0]

\* what Ticker(t).history(period="1d") does for one ticker
Outcomes == {Price(p) : p \in 0..MaxPrice} \cup {Empty, Raises}

ExampleQuotes == [t \in Tickers |-> IF t = "AAPL" THEN Price(170) ELSE Price(2700)]

TickerSet(rows) == {rows[i].Ticker : i \in DOMAIN rows}

Absent == [exists |-> FALSE, data |-> None]
File(data) == [exists |-> TRUE, data |-> data]

\* what an earlier run may have left at the output paths
StaleReport == File(FrameOf(<< [Ticker |-> "OLD", Quantity |-> 1, PurchasePrice |-> 1] >>))
StaleChart == File(<< [Ticker |-> "OLD", height |-> 1, color |-> Zero] >>)

\* --------------------------------------------------------------- state
VARIABLES
    inputFile,     \* the file at PORTFOLIO_CSV_PATH
    provider,      \* the market-data provider: ticker -> outcome of its lookup
    reportFile,    \* the file at REPORT_CSV_PATH
    chartFile,     \* the file at CHART_PNG_PATH
    pc,            \* where main() is
    exitStatus,    \* "running", or how the process ended: "zero" / "nonzero"
    console,       \* what was printed, in order
    portfolio_df,  \* the table main() holds (enriched in place)
    tickers,       \* get_live_prices: its argument
    cursor,        \* get_live_prices: position of the for loop in tickers
    prices,        \* get_live_prices: the dict being filled
    lookups,       \* the tickers the provider was asked for, in order
    summary,       \* the totals printed by generate_summary_and_report (<< >> before)
    returned       \* the tables returned by the calls of calculate_performance

vars == << inputFile, provider, reportFile, chartFile, pc, exitStatus, console,
           portfolio_df, tickers, cursor, prices, lookups, summary, returned >>

Msg(text, arg) == [text |-> text, arg |-> arg]

\* load_portfolio without the check of the required columns
load_portfolio_unvalidated(file) ==
    IF ~file.exists
    THEN [df |-> None,
          out |-> << Msg("Error: Portfolio file not found", PORTFOLIO_CSV_PATH),
                     Msg("Please create it with columns", "") >>]
    ELSE [df |-> file.data,
          out |-> << Msg("Loading portfolio", PORTFOLIO_CSV_PATH) >>]

\* ------------------------------------------------------- load_portfolio
load_portfolio(file) ==
    IF ~file.exists
    THEN [df |-> None,
          out |-> << Msg("Error: Portfolio file not found", PORTFOLIO_CSV_PATH),
                     Msg("Please create it with columns", "") >>]
    ELSE IF ~(required_columns \subseteq DOMAIN file.data)
    THEN [df |-> None,
          out |-> << Msg("Loading portfolio", PORTFOLIO_CSV_PATH),
                     Msg("Error: The CSV file must contain the columns", "") >>]
    ELSE [df |-> file.data,
          out |-> << Msg("Loading portfolio", PORTFOLIO_CSV_PATH) >>]

\* the loop body with an except clause that records nothing
record_price_not_on_error(dict, ticker_symbol, hist) ==
    IF hist.kind = "price"
    THEN (ticker_symbol :> hist.price) @@ dict
    ELSE IF hist.kind = "empty"
    THEN (ticker_symbol :> 0) @@ dict
    ELSE dict

\* ------------------------------------------------------ get_live_prices
\* one pass of the loop body: the entry written to prices for the ticker
record_price(dict, ticker_symbol, hist) ==
    IF hist.kind = "price"
    THEN (ticker_symbol :> hist.price) @@ dict
    ELSE (ticker_symbol :> 0) @@ dict

\* one pass of the loop body: what it prints
lookup_warning(ticker_symbol, hist) ==
    IF hist.kind = "empty"
    THEN << Msg("Warning: Could not retrieve data for ticker", ticker_symbol) >>
    ELSE IF hist.kind = "raise"
    THEN << Msg("An error occurred while fetching data for", ticker_symbol) >>
    ELSE << >>

\* calculate_performance with the operands of ProfitLoss exchanged
EnrichSwapped(df, live_prices) ==
    LET n == Rows(df)
        CurrentPrice == MapCol(df["Ticker"], live_prices)
        PurchaseValue == [i \in 1..n |-> df["Quantity"][i] * df["PurchasePrice"][i]]
        CurrentValue == [i \in 1..n |-> df["Quantity"][i] * CurrentPrice[i]]
        ProfitLoss == [i \in 1..n |-> PurchaseValue[i] - CurrentValue[i]]
        Ratio == [i \in 1..n |-> Times(Div(ProfitLoss[i], PurchaseValue[i]), 100)]
    IN  SetCol(SetCol(SetCol(SetCol(SetCol(df,
            "CurrentPrice", CurrentPrice),
            "PurchaseValue", PurchaseValue),
            "CurrentValue", CurrentValue),
            "ProfitLoss", ProfitLoss),
            "PercentageReturn", fillna(Ratio, Zero))

\* calculate_performance adding to a CurrentValue column that is already there
EnrichAccumulating(df, live_prices) ==
    LET n == Rows(df)
        CurrentPrice == MapCol(df["Ticker"], live_prices)
        PurchaseValue == [i \in 1..n |-> df["Quantity"][i] * df["PurchasePrice"][i]]
        CurrentValue == [i \in 1..n |->
            IF "CurrentValue" \in DOMAIN df
            THEN df["CurrentValue"][i] + df["Quantity"][i] * CurrentPrice[i]
            ELSE df["Quantity"][i] * CurrentPrice[i]]
        ProfitLoss == [i \in 1..n |-> CurrentValue[i] - PurchaseValue[i]]
        Ratio == [i \in 1..n |-> Times(Div(ProfitLoss[i], PurchaseValue[i]), 100)]
    IN  SetCol(SetCol(SetCol(SetCol(SetCol(df,
            "CurrentPrice", CurrentPrice),
            "PurchaseValue", PurchaseValue),
            "CurrentValue", CurrentValue),
            "ProfitLoss", ProfitLoss),
            "PercentageReturn", fillna(Ratio, Zero))

\* ------------------------------------------------ calculate_performance
\* lines 78-87: the columns derived from Ticker, Quantity, PurchasePrice
Enrich(df, live_prices) ==
    LET n == Rows(df)
        CurrentPrice == MapCol(df["Ticker"], live_prices)
        PurchaseValue == [i \in 1..n |-> df["Quantity"][i] * df["PurchasePrice"][i]]
        CurrentValue == [i \in 1..n |-> df["Quantity"][i] * CurrentPrice[i]]
        ProfitLoss == [i \in 1..n |-> CurrentValue[i] - PurchaseValue[i]]
        Ratio == [i \in 1..n |-> Times(Div(ProfitLoss[i], PurchaseValue[i]), 100)]
    IN  SetCol(SetCol(SetCol(SetCol(SetCol(df,
            "CurrentPrice", CurrentPrice),
            "PurchaseValue", PurchaseValue),
            "CurrentValue", CurrentValue),
            "ProfitLoss", ProfitLoss),
            "PercentageReturn", fillna(Ratio, Zero))

\* the totals without the guard on total_purchase_value
TotalsUnguarded(df) ==
    LET total_purchase_value == Sum(df["PurchaseValue"])
        total_current_value == Sum(df["CurrentValue"])
        total_profit_loss == Sum(df["ProfitLoss"])
    IN  [total_purchase_value |-> total_purchase_value,
         total_current_value |-> total_current_value,
         total_profit_loss |-> total_profit_loss,
         total_percentage_return |->
             Times(Div(total_profit_loss, total_purchase_value), 100)]

\* ------------------------------------------ generate_summary_and_report
Totals(df) ==
    LET total_purchase_value == Sum(df["PurchaseValue"])
        total_current_value == Sum(df["CurrentValue"])
        total_profit_loss == Sum(df["ProfitLoss"])
    IN  [total_purchase_value |-> total_purchase_value,
         total_current_value |-> total_current_value,
         total_profit_loss |-> total_profit_loss,
         total_percentage_return |->
             IF total_purchase_value > 0
             THEN Times(Div(total_profit_loss, total_purchase_value), 100)
             ELSE Zero]

\* ----------------------------------------------- generate_visualization
\* groupby('Ticker')['CurrentValue'].sum()
GroupSum(df) ==
    [t \in {df["Ticker"][i] : i \in 1..Rows(df)} |->
        Sum(SelectSeq([i \in 1..Rows(df) |->
                          IF df["Ticker"][i] = t THEN df["CurrentValue"][i] ELSE 0],
                      LAMBDA v : TRUE))]

\* sort_values with the default ascending=True
SortValuesAscending(series) ==
    LET keys == DOMAIN series
        n == Cardinality(keys)
    IN  {order \in [1..n -> keys] :
            /\ \A i, j \in 1..n : i # j => order[i] # order[j]
            /\ \A i \in 1..n, j \in 1..n : i < j => series[order[i]] <= series[order[j]]}

\* sort_values(ascending=False): the orders of the index a descending sort
\* may leave (the order of equal values is not fixed by the sort)
SortValuesDescending(series) ==
    LET keys == DOMAIN series
        n == Cardinality(keys)
    IN  {order \in [1..n -> keys] :
            /\ \A i, j \in 1..n : i # j => order[i] # order[j]
            /\ \A i \in 1..n, j \in 1..n : i < j => series[order[i]] >= series[order[j]]}

Max(S) == CHOOSE m \in S : \A x \in S : x <= m

\* ax.bar(index, values, color=viridis(values / values.max()))
Bars(series, order) ==
    LET top == Max({series[t] : t \in DOMAIN series})
    IN  [i \in DOMAIN order |->
            [Ticker |-> order[i],
             height |-> series[order[i]],
             color |-> Div(series[order[i]], top)]]

\* ----------------------------------------------------------------- main
\* an exception nobody catches: traceback, the interpreter exits with status 1
Raise(exception) ==
    /\ pc' = "exit"
    /\ exitStatus' = "nonzero"
    /\ console' = Append(console, Msg("Traceback", exception))

\* main, lines 157-163
Load ==
    /\ pc = "load"
    /\ LET r == load_portfolio(inputFile)
       IN  /\ portfolio_df' = r.df
           /\ IF r.df = None
              THEN /\ console' = console \o << Msg("Starting", "") >> \o r.out
                                   \o << Msg("Script execution failed", "") >>
                   /\ pc' = "exit"
                   /\ exitStatus' = "zero"
              ELSE /\ console' = console \o << Msg("Starting", "") >> \o r.out
                   /\ pc' = "calculate"
                   /\ exitStatus' = exitStatus
    /\ UNCHANGED << inputFile, provider, reportFile, chartFile, tickers, cursor,
                    prices, lookups, summary, returned >>

\* calculate_performance, lines 73-75, and get_live_prices, lines 46-47
CalculateBegin ==
    /\ pc = "calculate"
    /\ IF "Ticker" \in DOMAIN portfolio_df
       THEN /\ tickers' = Unique(portfolio_df["Ticker"])
            /\ prices' = [t \in {} |-> 0]
            /\ cursor' = 1
            /\ lookups' = << >>
            /\ console' = console \o << Msg("Calculating portfolio performance", ""),
                                        Msg("Fetching live market data", "") >>
            /\ pc' = "get_live_prices"
            /\ exitStatus' = exitStatus
       ELSE /\ Raise("KeyError")
            /\ UNCHANGED << tickers, prices, cursor, lookups >>
    /\ UNCHANGED << inputFile, provider, reportFile, chartFile, portfolio_df,
                    summary, returned >>

\* get_live_prices, lines 48-60: one iteration of the loop
GetLivePricesStep ==
    /\ pc = "get_live_prices"
    /\ cursor <= Len(tickers)
    /\ LET ticker_symbol == tickers[cursor]
           hist == provider[ticker_symbol]
       IN  /\ lookups' = Append(lookups, ticker_symbol)
           /\ prices' = record_price(prices, ticker_symbol, hist)
           /\ console' = console \o lookup_warning(ticker_symbol, hist)
    /\ cursor' = cursor + 1
    /\ UNCHANGED << inputFile, provider, reportFile, chartFile, pc, exitStatus,
                    portfolio_df, tickers, summary, returned >>

\* get_live_prices, line 61, and calculate_performance, lines 78-89
CalculateFinish ==
    /\ pc = "get_live_prices"
    /\ cursor > Len(tickers)
    /\ IF {"Quantity", "PurchasePrice"} \subseteq DOMAIN portfolio_df
       THEN /\ portfolio_df' = Enrich(portfolio_df, prices)
            /\ returned' = Append(returned, portfolio_df')
            /\ pc' = "report"
            /\ UNCHANGED << exitStatus, console >>
       ELSE /\ Raise("KeyError")
            /\ UNCHANGED << portfolio_df, returned >>
    /\ UNCHANGED << inputFile, provider, reportFile, chartFile, tickers, cursor,
                    prices, lookups, summary >>

\* generate_summary_and_report, lines 99-121
GenerateSummaryAndReport ==
    /\ pc = "report"
    /\ summary' = << Totals(portfolio_df) >>
    /\ console' = console \o << Msg("PORTFOLIO SUMMARY", ""),
                                Msg("Saving detailed performance report", REPORT_CSV_PATH) >>
    /\ reportFile' = File(portfolio_df)
    /\ pc' = "visualize"
    /\ UNCHANGED << inputFile, provider, chartFile, exitStatus, portfolio_df,
                    tickers, cursor, prices, lookups, returned >>

\* generate_visualization, lines 131-153
GenerateVisualization ==
    /\ pc = "visualize"
    /\ LET chart_data == GroupSum(portfolio_df)
       IN  IF DOMAIN chart_data = {}
           THEN \* values.max() of a zero-size array raises ValueError
                /\ pc' = "exit"
                /\ exitStatus' = "nonzero"
                /\ console' = console \o
                       << Msg("Generating portfolio distribution chart", CHART_PNG_PATH),
                          Msg("Traceback", "ValueError") >>
                /\ chartFile' = chartFile
           ELSE \E order \in SortValuesDescending(chart_data) :
                /\ chartFile' = File(Bars(chart_data, order))
                /\ console' = Append(console,
                       Msg("Generating portfolio distribution chart", CHART_PNG_PATH))
                /\ pc' = "complete"
                /\ exitStatus' = exitStatus
    /\ UNCHANGED << inputFile, provider, reportFile, portfolio_df, tickers, cursor,
                    prices, lookups, summary, returned >>

\* the closing messages printed before the chart is rendered
CompleteBeforeChart ==
    /\ pc \in {"visualize", "complete"}
    /\ console' = console \o << Msg("Portfolio analysis complete", ""),
                                Msg("Report", REPORT_CSV_PATH),
                                Msg("Chart", CHART_PNG_PATH) >>
    /\ pc' = "exit"
    /\ exitStatus' = "zero"
    /\ UNCHANGED << inputFile, provider, reportFile, chartFile, portfolio_df,
                    tickers, cursor, prices, lookups, summary, returned >>

\* main, lines 174-176, and the return from main
Complete ==
    /\ pc = "complete"
    /\ console' = console \o << Msg("Portfolio analysis complete", ""),
                                Msg("Report", REPORT_CSV_PATH),
                                Msg("Chart", CHART_PNG_PATH) >>
    /\ pc' = "exit"
    /\ exitStatus' = "zero"
    /\ UNCHANGED << inputFile, provider, reportFile, chartFile, portfolio_df,
                    tickers, cursor, prices, lookups, summary, returned >>

\* a caller applies calculate_performance again to the table it returned
CalculateAgain ==
    /\ pc = "report"
    /\ Len(returned) < MaxRuns
    /\ pc' = "calculate"
    /\ UNCHANGED << inputFile, provider, reportFile, chartFile, exitStatus, console,
                    portfolio_df, tickers, cursor, prices, lookups, summary, returned >>

\* ------------------------------------------------------- specifications
Inputs == {[rows |-> rows, quotes |-> q] :
              rows \in Holdings, q \in [Tickers -> Outcomes]}
          \cup {[rows |-> ExampleHoldings, quotes |-> ExampleQuotes]}

Fresh ==
    /\ pc = "load"
    /\ exitStatus = "running"
    /\ console = << >>
    /\ portfolio_df = None
    /\ tickers = << >>
    /\ cursor = 1
    /\ prices = [t \in {} |-> 0]
    /\ lookups = << >>
    /\ summary = << >>
    /\ returned = << >>

Init ==
    /\ \E in \in Inputs :
        /\ provider = [t \in TickerSet(in.rows) |-> in.quotes[t]]
        /\ \/ inputFile = File(FrameOf(in.rows))
           \/ \E c \in required_columns :
                 inputFile = File(Restrict(FrameOf(in.rows), required_columns \ {c}))
           \/ /\ in.rows = << >>
              /\ inputFile = Absent
    /\ \/ reportFile = Absent /\ chartFile = Absent
       \/ reportFile = StaleReport /\ chartFile = StaleChart
    /\ Fresh

Next ==
    \/ Load
    \/ CalculateBegin
    \/ GetLivePricesStep
    \/ CalculateFinish
    \/ GenerateSummaryAndReport
    \/ GenerateVisualization
    \/ Complete

Spec == Init /\ [][Next]_vars

\* calculate_performance as a function of the table and the quotes, applied
\* MaxRuns times to the table it enriches in place
InitCalc ==
    /\ \E in \in Inputs :
        /\ provider = [t \in TickerSet(in.rows) |-> in.quotes[t]]
        /\ inputFile = File(FrameOf(in.rows))
        /\ portfolio_df = FrameOf(in.rows)
    /\ reportFile = Absent
    /\ chartFile = Absent
    /\ pc = "calculate"
    /\ exitStatus = "running"
    /\ console = << >>
    /\ tickers = << >>
    /\ cursor = 1
    /\ prices = [t \in {} |-> 0]
    /\ lookups = << >>
    /\ summary = << >>
    /\ returned = << >>

NextCalc ==
    \/ CalculateBegin
    \/ GetLivePricesStep
    \/ CalculateFinish
    \/ CalculateAgain

SpecCalc == InitCalc /\ [][NextCalc]_vars

\* ================================================================ claims
\* vocabulary of the claims, stated on the inputs and the observable results

\* loading fails: the input file is absent, or lacks a required column
LoadFails ==
    \/ ~inputFile.exists
    \/ \E c \in {"Ticker", "Quantity", "PurchasePrice"} : c \notin DOMAIN inputFile.data

\* the resolved quote of a ticker: the provider's price, 0 when it has none
Quote(t) == IF provider[t].kind = "price" THEN provider[t].price ELSE 0

Printed(text, arg) == \E i \in DOMAIN console : console[i] = Msg(text, arg)

Warned(t) ==
    \/ Printed("Warning: Could not retrieve data for ticker", t)
    \/ Printed("An error occurred while fetching data for", t)

ReportWritten == reportFile.exists /\ reportFile # StaleReport
ChartWritten == chartFile.exists /\ chartFile # StaleChart

SuccessPrinted ==
    /\ Printed("Portfolio analysis complete", "")
    /\ Printed("Report", "portfolio_performance_report.csv")
    /\ Printed("Chart", "portfolio_distribution.png")

\* the sum of col[i] over the indices i of S
RECURSIVE SumOver(_, _)
SumOver(col, S) ==
    IF S = {} THEN 0
    ELSE LET i == CHOOSE x \in S : TRUE IN col[i] + SumOver(col, S \ {i})

IsFinite(x) == x.k = "fin"

\* C1: every holding whose PurchaseValue is 0 has PercentageReturn exactly 0,
\* and every PercentageReturn is a finite number.
C1_ZeroPurchaseValueMeansZeroReturn ==
    \A r \in DOMAIN returned :
        \A i \in 1..Rows(returned[r]) :
            /\ IsFinite(returned[r]["PercentageReturn"][i])
            /\ returned[r]["PurchaseValue"][i] = 0
                   => returned[r]["PercentageReturn"][i] = Zero

\* C2: when loading fails (file absent or a required column missing) the run
\* stops after the diagnostic: the provider is never asked for a price and
\* the report and chart files stay as they were.
C2_FailedLoadTouchesNothing ==
    LoadFails =>
        /\ pc \in {"load", "exit"}
        /\ lookups = << >>
        /\ reportFile \in {Absent, StaleReport}
        /\ chartFile \in {Absent, StaleChart}
        /\ pc = "exit" =>
              /\ Printed("Script execution failed", "")
              /\ \/ Printed("Error: Portfolio file not found", "portfolio.csv")
                 \/ Printed("Error: The CSV file must contain the columns", "")

C2_Witness ==
    /\ pc = "exit"
    /\ inputFile.exists
    /\ "Quantity" \notin DOMAIN inputFile.data
    /\ Len(inputFile.data["Ticker"]) > 0
    /\ reportFile = StaleReport
    /\ chartFile = StaleChart

\* C3: a run whose input is missing or malformed ends with a non-zero exit
\* status; every other run ends with the success message naming both paths.
C3_ExitOutcome ==
    pc = "exit" =>
        IF LoadFails
        THEN exitStatus = "nonzero"
        ELSE exitStatus = "zero" /\ SuccessPrinted

\* C4: get_live_prices asks the provider for every ticker of its list and
\* records an entry for each: the provider's price, or 0 with a warning when
\* the lookup returned nothing or raised; a failure changes no other entry.
C4_EveryTickerGetsAnEntry ==
    /\ lookups = SubSeq(tickers, 1, cursor - 1)
    /\ DOMAIN prices = {tickers[i] : i \in 1..(cursor - 1)}
    /\ \A t \in DOMAIN prices :
          /\ prices[t] = Quote(t)
          /\ provider[t].kind # "price" => prices[t] = 0 /\ Warned(t)
    /\ returned # << >> =>
          /\ cursor = Len(tickers) + 1
          /\ DOMAIN prices = {portfolio_df["Ticker"][i] : i \in 1..Rows(portfolio_df)}

C4_Witness ==
    /\ returned # << >>
    /\ Len(tickers) = 2
    /\ provider[tickers[1]].kind = "raise"
    /\ provider[tickers[2]].kind = "price"
    /\ prices[tickers[1]] = 0
    /\ prices[tickers[2]] > 0

\* C5: once the holdings are loaded the run never fails: it ends with both
\* output files written, for the empty holdings set too.
C5_NoFailureOnceLoaded ==
    ~LoadFails =>
        /\ exitStatus # "nonzero"
        /\ pc = "exit" => ReportWritten /\ ChartWritten

\* C6: the printed totals are the sums of PurchaseValue, CurrentValue and
\* ProfitLoss over all rows, and the total percentage return is
\* total profit / total purchase value x 100 when the total purchase value is
\* positive and 0 otherwise.
C6_TotalsAreSums ==
    summary # << >> =>
        LET s == summary[1]
            rows == 1..Rows(portfolio_df)
            p == s.total_percentage_return
        IN  /\ s.total_purchase_value = SumOver(portfolio_df["PurchaseValue"], rows)
            /\ s.total_current_value = SumOver(portfolio_df["CurrentValue"], rows)
            /\ s.total_profit_loss = SumOver(portfolio_df["ProfitLoss"], rows)
            /\ IsFinite(p)
            /\ IF s.total_purchase_value > 0
               THEN p.n * s.total_purchase_value = 100 * s.total_profit_loss * p.d
               ELSE p = Zero

C6_Witness ==
    /\ summary # << >>
    /\ Rows(portfolio_df) >= 2
    /\ summary[1].total_purchase_value > 0
    /\ summary[1].total_profit_loss < 0
    /\ summary[1].total_percentage_return.n < 0

\* C7: the table returned has one row per input row, in the input order, with
\* PurchaseValue = Quantity x PurchasePrice, CurrentValue = Quantity x the
\* resolved quote of the row's ticker, ProfitLoss = CurrentValue - PurchaseValue;
\* the example holdings with quotes 170 and 2700 give ProfitLoss 200, 50, -200.
C7_PerHoldingMetrics ==
    \A r \in DOMAIN returned :
        LET df == returned[r]
            in == inputFile.data
        IN  /\ df["Ticker"] = in["Ticker"]
            /\ df["Quantity"] = in["Quantity"]
            /\ df["PurchasePrice"] = in["PurchasePrice"]
            /\ \A c \in {"CurrentPrice", "PurchaseValue", "CurrentValue", "ProfitLoss"} :
                  Len(df[c]) = Len(in["Ticker"])
            /\ \A i \in 1..Len(in["Ticker"]) :
                  /\ df["CurrentPrice"][i] = Quote(in["Ticker"][i])
                  /\ df["PurchaseValue"][i] = in["Quantity"][i] * in["PurchasePrice"][i]
                  /\ df["CurrentValue"][i] = in["Quantity"][i] * Quote(in["Ticker"][i])
                  /\ df["ProfitLoss"][i] = df["CurrentValue"][i] - df["PurchaseValue"][i]
            /\ (in = FrameOf(ExampleHoldings) /\ provider = ExampleQuotes)
                  => df["ProfitLoss"] = << 200, 50, -200 >>

C7_Witness ==
    /\ returned # << >>
    /\ inputFile.data = FrameOf(ExampleHoldings)
    /\ provider = ExampleQuotes
    /\ returned[1]["PurchaseValue"] = << 1500, 800, 5600 >>
    /\ returned[1]["CurrentValue"] = << 1700, 850, 5400 >>

\* C8: the chart has exactly one bar per distinct ticker of the table, the
\* bar's height is the sum of CurrentValue over the ticker's lots, and the
\* bars are in non-increasing order of height.
C8_OneBarPerTickerDescending ==
    ChartWritten =>
        LET bars == chartFile.data
            df == portfolio_df
            lots(t) == {i \in 1..Rows(df) : df["Ticker"][i] = t}
        IN  /\ {bars[b].Ticker : b \in DOMAIN bars}
                   = {df["Ticker"][i] : i \in 1..Rows(df)}
            /\ \A a, b \in DOMAIN bars : a # b => bars[a].Ticker # bars[b].Ticker
            /\ \A b \in DOMAIN bars :
                  bars[b].height = SumOver(df["CurrentValue"], lots(bars[b].Ticker))
            /\ \A a, b \in DOMAIN bars : a < b => bars[a].height >= bars[b].height

C8_Witness ==
    /\ ChartWritten
    /\ Rows(portfolio_df) = 3
    /\ Len(chartFile.data) = 2
    /\ chartFile.data[1].Ticker = "GOOG"
    /\ chartFile.data[1].height = 5400
    /\ chartFile.data[2].height = 2550

\* C9: every call of calculate_performance on the same holdings with the same
\* quotes returns the same table, a call on the table already enriched by an
\* earlier call included.
C9_CalculatorIdempotent ==
    \A i, j \in DOMAIN returned : returned[i] = returned[j]

C9_Witness ==
    /\ Len(returned) >= 2
    /\ \E i \in 1..Rows(returned[2]) :
          /\ returned[2]["CurrentValue"][i] > 0
          /\ returned[2]["PurchaseValue"][i] > 0
          /\ returned[2]["ProfitLoss"][i] # 0

\* C10: the phases of main run in the order load, quotes and calculation,
\* report, chart, success message: the report is written only once every
\* distinct ticker has a price, the chart only after the report, the success
\* message only after both files; a failure in the chart leaves the report
\* written and no success message.
C10_PhaseOrder ==
    /\ ReportWritten =>
          /\ returned # << >>
          /\ reportFile.data = returned[1]
          /\ DOMAIN prices = {portfolio_df["Ticker"][i] : i \in 1..Rows(portfolio_df)}
          /\ Printed("Loading portfolio", "portfolio.csv")
    /\ ChartWritten => ReportWritten
    /\ SuccessPrinted => ReportWritten /\ ChartWritten /\ pc = "exit"
    /\ (exitStatus = "nonzero" /\ summary # << >>) => ReportWritten /\ ~SuccessPrinted
    /\ (exitStatus = "zero" /\ ~LoadFails) => SuccessPrinted

C10_Witness ==
    /\ exitStatus = "nonzero"
    /\ Printed("Traceback", "ValueError")
    /\ ReportWritten
    /\ reportFile.data = returned[1]
    /\ ~ChartWritten
    /\ ~SuccessPrinted

====
